---- MODULE Spec2Model ----
(***************************************************************************)
(* BoardGamesRecorder: the BoardGameGeek catalog client                    *)
(* (backend/bgg_integration.py) and the game store with its               *)
(* synchronisation (backend/crud.py, backend/models.py).                   *)
(*                                                                         *)
(* Modelling decisions                                                     *)
(*  - A name is a tuple of characters, so that str.lower() is computed     *)
(*    character by character (Lower) and "Ch" and "ch" are different names *)
(*    that compare equal case-insensitively.                               *)
(*  - None / SQL NULL is the value NULL (-1) in every nullable column.     *)
(*    URLs are opaque integer tokens.                                      *)
(*  - Wall-clock time is kept relative: since_last_request is              *)
(*    time.time() - self.last_request_time, saturating at                  *)
(*    min_request_interval (the code only compares it to that interval).   *)
(*    time.sleep(n) is a countdown sleep_left that Tick decrements.        *)
(*  - datetime.utcnow() in sync_games_from_bgg is the logical clock        *)
(*    utc_clock, which advances by one at every sync call.                 *)
(*  - The SQLAlchemy session of one sync call is the record sess:          *)
(*    tx is the table as the open transaction sees it, dirty the pending   *)
(*    attribute values of loaded rows, new the pending db.add()ed rows,    *)
(*    inactive the "rolled back by a failed flush" state in which every    *)
(*    statement raises.  Whether a query flushes first is the session      *)
(*    factory's autoflush setting (backend/database.py), which is free.    *)
(***************************************************************************)
EXTENDS Integers, Sequences, FiniteSets, TLC

\* ------------------------------------------------------------------ bounds
MaxColl == 2          \* records in one upstream collection
MaxSyncs == 1         \* sync calls in one behaviour (a repeated sync comes on top)
MaxEdits == 1         \* create_game / update_game calls that change the store
MaxMatches == 2       \* rows of the matches table

\* ------------------------------------------------------- program constants
min_request_interval == 5    \* BGGIntegration.__init__
max_retries == 5             \* fetch_user_collection default
retry_delay == 5             \* time.sleep(5) in fetch_user_collection
NULL == -1                   \* None / SQL NULL

\* ------------------------------------------------------------- data model
\* Names: "Ch" and "ch" are equal case-insensitively, "Go" is not.
Names == { <<"C", "h">>, <<"c", "h">>, <<"G", "o">> }
BggIds == {1, 2}
DataVals == {NULL, 1}

LowerChar(c) ==
    CASE c = "C" -> "c"
      [] c = "G" -> "g"
      [] OTHER -> c

\* str.lower()
Lower(s) == [i \in DOMAIN s |-> LowerChar(s[i])]

\* One dictionary of _extract_game_from_xml; every optional field of one
\* record carries the same token v.
GameData(id, nm, v) ==
    [bgg_id |-> id, name |-> nm, year_published |-> v, thumbnail_url |-> v,
     image_url |-> v, min_players |-> v, max_players |-> v,
     playing_time |-> v, bgg_rating |-> v]

\* The records a collection is made of; one of them has the falsy id.
Records ==
    { GameData(id, nm, v) : id \in BggIds, nm \in Names, v \in DataVals }
        \cup { GameData(0, <<"G", "o">>, NULL) }

RECURSIVE SeqsUpTo(_, _)
SeqsUpTo(S, n) ==
    IF n = 0 THEN { <<>> }
    ELSE LET shorter == SeqsUpTo(S, n - 1)
         IN shorter \cup { Append(q, x) : q \in { r \in shorter : Len(r) = n - 1 }, x \in S }

Collections == SeqsUpTo(Records, MaxColl)

\* models.Game(name=...) with the column defaults
PlainGame(nm) ==
    [name |-> nm, bgg_id |-> NULL, year_published |-> NULL, thumbnail_url |-> NULL,
     image_url |-> NULL, min_players |-> NULL, max_players |-> NULL,
     playing_time |-> NULL, bgg_rating |-> NULL, is_from_bgg |-> FALSE,
     last_synced |-> NULL]

Max(S) == CHOOSE x \in S : \A y \in S : y <= x
Min(S) == CHOOSE x \in S : \A y \in S : x <= y

\* The id the table gives the next inserted row.
NextId(tbl) == IF DOMAIN tbl = {} THEN 1 ELSE Max(DOMAIN tbl) + 1

\* func.lower(models.Game.name) == name.lower(), as a set of ids
IdsByLowerName(tbl, nm) == { i \in DOMAIN tbl : Lower(tbl[i].name) = Lower(nm) }

\* .first() of a query without ORDER BY: the table scan's first row.
First(ids) == IF ids = {} THEN 0 ELSE Min(ids)

\* The query has lost its filter: the first row of the table.
get_game_unfiltered(tbl, bgg_id) == First(DOMAIN tbl)

\* get_game_by_bgg_id: the row id, 0 for None
get_game_by_bgg_id(tbl, bgg_id) == First({ i \in DOMAIN tbl : tbl[i].bgg_id = bgg_id })

\* UNIQUE(name), UNIQUE(bgg_id) of models.Game: would writing `row` as row
\* `id` violate them against the other rows of the table?
ViolatesUnique(tbl, id, row) ==
    \E j \in DOMAIN tbl \ {id} :
        \/ tbl[j].name = row.name
        \/ row.bgg_id # NULL /\ tbl[j].bgg_id = row.bgg_id

\* ------------------------------------------------- the SQLAlchemy session
\* A session on the committed table: nothing pending.
NewSession(committed) ==
    [tx |-> committed, dirty |-> << >>, new |-> << >>, inactive |-> FALSE]

\* The attribute values of loaded row i as the session's object holds them.
Obj(s, i) == IF i \in DOMAIN s.dirty THEN s.dirty[i] ELSE s.tx[i]

\* setattr on a loaded object
SetObj(s, i, row) ==
    [s EXCEPT !.dirty = [j \in DOMAIN s.dirty \cup {i} |-> IF j = i THEN row ELSE s.dirty[j]]]

\* The UPDATE statements of a flush, in primary-key order.  Each one is
\* checked against the table as it is when the statement runs.
RECURSIVE FlushUpdates(_, _, _)
FlushUpdates(tbl, dirty, ids) ==
    IF ids = {} THEN [ok |-> TRUE, tx |-> tbl]
    ELSE LET i == Min(ids)
         IN IF dirty[i] = tbl[i] THEN FlushUpdates(tbl, dirty, ids \ {i})
            ELSE IF ViolatesUnique(tbl, i, dirty[i]) THEN [ok |-> FALSE, tx |-> tbl]
            ELSE FlushUpdates([tbl EXCEPT ![i] = dirty[i]], dirty, ids \ {i})

\* The INSERT statements of a flush, in db.add() order.
RECURSIVE FlushInserts(_, _, _)
FlushInserts(tbl, new, k) ==
    IF k > Len(new) THEN [ok |-> TRUE, tx |-> tbl]
    ELSE IF ViolatesUnique(tbl, 0, new[k]) THEN [ok |-> FALSE, tx |-> tbl]
    ELSE FlushInserts([j \in DOMAIN tbl \cup {NextId(tbl)} |->
                          IF j \in DOMAIN tbl THEN tbl[j] ELSE new[k]], new, k + 1)

\* Session.flush(): UPDATEs, then INSERTs.  An IntegrityError rolls the
\* transaction back and leaves the session inactive until rollback().
Flush(s, committed) ==
    LET u == FlushUpdates(s.tx, s.dirty, DOMAIN s.dirty)
        n == IF u.ok THEN FlushInserts(u.tx, s.new, 1) ELSE u
    IN IF n.ok
       THEN [ok |-> TRUE,
             sess |-> [tx |-> n.tx, dirty |-> << >>, new |-> << >>, inactive |-> FALSE]]
       ELSE [ok |-> FALSE,
             sess |-> [tx |-> committed, dirty |-> << >>, new |-> << >>, inactive |-> TRUE]]

\* What every db.query(...).first() does before it runs: raise on an
\* inactive session, flush first when the session autoflushes.
BeforeQuery(s, committed, af) ==
    IF s.inactive THEN [ok |-> FALSE, sess |-> s]
    ELSE IF af THEN Flush(s, committed)
    ELSE [ok |-> TRUE, sess |-> s]

\* The rows of the open transaction with the pending changes applied: what
\* this sync call has made of the store so far.
View(s) ==
    { Obj(s, i) : i \in DOMAIN s.tx } \cup { s.new[k] : k \in DOMAIN s.new }

\* --------------------------------------------------- sync_games_from_bgg
EmptyResult ==
    [success |-> FALSE, games_added |-> 0, games_updated |-> 0,
     errors |-> << >>, total_games |-> 0]

\* lines 278-287: the row matched by bgg_id takes the record's name too
UpdateExisting(row, rec, t) ==
    [row EXCEPT !.name = rec.name,
                !.year_published = rec.year_published,
                !.thumbnail_url = rec.thumbnail_url,
                !.image_url = rec.image_url,
                !.min_players = rec.min_players,
                !.max_players = rec.max_players,
                !.playing_time = rec.playing_time,
                !.bgg_rating = rec.bgg_rating,
                !.is_from_bgg = TRUE,
                !.last_synced = t]

\* lines 297-306: the row matched by name takes the bgg_id and keeps its name
UpdateNameConflict(row, rec, t) ==
    [row EXCEPT !.bgg_id = rec.bgg_id,
                !.year_published = rec.year_published,
                !.thumbnail_url = rec.thumbnail_url,
                !.image_url = rec.image_url,
                !.min_players = rec.min_players,
                !.max_players = rec.max_players,
                !.playing_time = rec.playing_time,
                !.bgg_rating = rec.bgg_rating,
                !.is_from_bgg = TRUE,
                !.last_synced = t]

\* lines 310-322
NewGame(rec, t) ==
    [name |-> rec.name, bgg_id |-> rec.bgg_id,
     year_published |-> rec.year_published, thumbnail_url |-> rec.thumbnail_url,
     image_url |-> rec.image_url, min_players |-> rec.min_players,
     max_players |-> rec.max_players, playing_time |-> rec.playing_time,
     bgg_rating |-> rec.bgg_rating, is_from_bgg |-> TRUE, last_synced |-> t]

Err(kind, nm) == [kind |-> kind, name |-> nm]

\* db.add(new_game), line 323
db_add(s, row) == [s EXCEPT !.new = Append(@, row)]

\* What one record did: how is "missing", "error", "by_id", "by_name" or
\* "added"; id the matched row (0 when none); seen_id / seen_name whether
\* the store as this sync had made it so far held the record's bgg_id /
\* its name case-insensitively when the record was taken up.
Outcome(how, id, s, rec) ==
    [how |-> how, id |-> id,
     seen_id |-> \E r \in View(s) : r.bgg_id = rec.bgg_id,
     seen_name |-> \E r \in View(s) : Lower(r.name) = Lower(rec.name)]

\* The matched record is not counted.
CountUpdatedForgotten(res) == res

\* result['games_updated'] += 1, lines 288 and 307
CountUpdated(res) == [res EXCEPT !.games_updated = @ + 1]

\* result['games_added'] += 1, line 324
CountAdded(res) == [res EXCEPT !.games_added = @ + 1]

\* The test is written `bgg_id is None`: 0 passes for an id.
HasBggIdNotNone(rec) == rec.bgg_id # NULL

\* Lines 267-268: bgg_id = game_data.get('bgg_id'), `if not bgg_id` negated
HasBggId(rec) == rec.bgg_id \notin { 0, NULL }

\* One pass of the for loop, lines 266-329.  st = [sess, result, outcomes].
ProcessGame(st, rec, t, committed, af) ==
    LET s == st.sess
        res == st.result
        q == BeforeQuery(s, committed, af)
        existing_game == get_game_by_bgg_id(q.sess.tx, rec.bgg_id)
        name_conflict == First(IdsByLowerName(q.sess.tx, rec.name))
    IN IF ~HasBggId(rec)
       THEN [sess |-> s,
             result |-> [res EXCEPT !.errors = Append(@, Err("missing_id", rec.name))],
             outcomes |-> Append(st.outcomes, Outcome("missing", 0, s, rec))]
       ELSE IF ~q.ok
       THEN [sess |-> q.sess,
             result |-> [res EXCEPT !.errors = Append(@, Err("record", rec.name))],
             outcomes |-> Append(st.outcomes, Outcome("error", 0, s, rec))]
       ELSE IF existing_game # 0
       THEN [sess |-> SetObj(q.sess, existing_game,
                             UpdateExisting(Obj(q.sess, existing_game), rec, t)),
             result |-> CountUpdated(res),
             outcomes |-> Append(st.outcomes, Outcome("by_id", existing_game, s, rec))]
       ELSE IF name_conflict # 0
       THEN [sess |-> SetObj(q.sess, name_conflict,
                             UpdateNameConflict(Obj(q.sess, name_conflict), rec, t)),
             result |-> CountUpdated(res),
             outcomes |-> Append(st.outcomes, Outcome("by_name", name_conflict, s, rec))]
       ELSE [sess |-> db_add(q.sess, NewGame(rec, t)),
             result |-> CountAdded(res),
             outcomes |-> Append(st.outcomes, Outcome("added", 0, s, rec))]

RECURSIVE ProcessGames(_, _, _, _, _, _)
ProcessGames(st, games_data, k, t, committed, af) ==
    IF k > Len(games_data) THEN st
    ELSE ProcessGames(ProcessGame(st, games_data[k], t, committed, af),
                      games_data, k + 1, t, committed, af)

\* db.commit(), line 332: flush, then the COMMIT itself, which the database
\* may refuse (db_ok = FALSE).  ok = FALSE is an exception; flushed tells
\* whether it was the COMMIT that raised.
Commit(s, committed, db_ok) ==
    LET f == IF s.inactive THEN [ok |-> FALSE, sess |-> s] ELSE Flush(s, committed)
    IN [ok |-> f.ok /\ db_ok, flushed |-> f.ok, store |-> f.sess.tx]

\* The except branch without db.rollback(): what was flushed stays.
RollbackKeeps(committed, attempted) == attempted

\* db.rollback(), line 336: the committed table is what remains.
Rollback(committed, attempted) == committed

\* success is made to depend on the errors list being empty.
MarkSuccessIfNoErrors(res) == [res EXCEPT !.success = (res.errors = << >>)]

\* result['success'] = True, line 333
MarkSuccess(res) == [res EXCEPT !.success = TRUE]

\* The except branch reports nothing: no error message, success untouched.
MarkFailureSilent(res, e) == res

\* Lines 337-338: the message of the exception, success = False
MarkFailure(res, e) == [res EXCEPT !.errors = Append(@, e), !.success = FALSE]

\* Lines 262-340 for a fetched list: the loop, the commit, the result.
\* Returns [store, result, outcomes, committed, flushed] (committed:
\* db.commit() returned; flushed: its flush went through).
Reconcile(committed, games_data, t, af, db_ok) ==
    LET st0 == [sess |-> NewSession(committed),
                result |-> [EmptyResult EXCEPT !.total_games = Len(games_data)],
                outcomes |-> << >>]
        st == ProcessGames(st0, games_data, 1, t, committed, af)
        c == Commit(st.sess, committed, db_ok)
    IN IF c.ok
       THEN [store |-> c.store,
             result |-> MarkSuccess(st.result),
             outcomes |-> st.outcomes, committed |-> TRUE, flushed |-> TRUE]
       ELSE [store |-> Rollback(committed, c.store),
             result |-> MarkFailure(st.result, Err("sync", << >>)),
             outcomes |-> st.outcomes, committed |-> FALSE, flushed |-> c.flushed]

\* ------------------------------------------------------ the catalog client
\* _extract_game_from_xml on one <item>: objectid may be absent (NULL) and
\* the name absent or empty (the empty tuple).  None is the empty sequence,
\* a dictionary a one-element sequence.
extract_game_from_xml(item) ==
    IF item.bgg_id = NULL \/ item.name = << >> THEN << >> ELSE << item >>

\* _parse_collection_xml on a well-formed body: the items that extract.
RECURSIVE parse_collection_xml(_)
parse_collection_xml(items) ==
    IF items = << >> THEN << >>
    ELSE extract_game_from_xml(Head(items)) \o parse_collection_xml(Tail(items))

\* <item> elements of a response body: the records, an item without
\* objectid and an item without <name>.
Items ==
    Records \cup { GameData(NULL, <<"G", "o">>, NULL), GameData(1, << >>, NULL) }

Bodies == SeqsUpTo(Items, MaxColl)

\* What the upstream can answer to one GET, other than a well-formed 200.
Failures == { "malformed", "401", "404", "500", "202", "timeout", "exception" }

Threads == {1, 2}
Main == 1

None == [ok |-> FALSE, games |-> << >>]
Some(games_data) == [ok |-> TRUE, games |-> games_data]

VARIABLES
    games,               \* the committed games table: id -> row
    autoflush,           \* the session factory's autoflush setting
    utc_clock,           \* datetime.utcnow(), logical
    edits,               \* create_game / update_game calls that changed the store
    since_last_request,  \* time.time() - _bgg_client.last_request_time, saturating
    last_gap,            \* time between the last two requests issued, saturating
    pc,                  \* per thread: where it is
    attempt,             \* per thread: the for loop's attempt
    sleep_left,          \* per thread: what is left of its time.sleep()
    fetched,             \* per thread: what fetch_user_collection returned
    history,             \* per thread: the responses of the current fetch call
    result,              \* the sync call's result dictionary
    outcomes,            \* what each record of the sync call did
    games_before,        \* the committed table when the sync call began
    commit_state,        \* "none", "ok", "flush_failed", "db_failed"
    last_sync,           \* the previous sync call, when the next repeats it
    matches,             \* the committed matches table: id -> row
    last_call            \* the last crud call: what it was given, what it raised

vars ==
    << games, autoflush, utc_clock, edits, since_last_request, last_gap, pc,
       attempt, sleep_left, fetched, history, result, outcomes, games_before,
       commit_state, last_sync, matches, last_call >>

store_vars == << games, autoflush, utc_clock, edits, matches, last_call >>
client_vars == << since_last_request, last_gap >>
thread_vars == << pc, attempt, sleep_left, fetched, history >>
sync_vars == << result, outcomes, games_before, commit_state, last_sync >>

NoHistory == [requests |-> 0, all_processing |-> TRUE, last |-> "none"]
NoSync == [valid |-> FALSE, games_data |-> << >>, result |-> EmptyResult]

\* A crud call with the name and the row id it was given (<< >> and 0 when
\* it takes none) and the exception it raised ("none" when it returned).
Call(op, nm, id, exc) == [op |-> op, name |-> nm, id |-> id, exc |-> exc]
NoCall == Call("none", << >>, 0, "none")

\* Rows a store holds before the behaviour starts: added by a sync at the
\* earlier time 0.
InitRows == { NewGame(GameData(id, nm, 1), 0) : id \in BggIds, nm \in Names }

\* The stores an earlier sync of at most two records leaves: names differ
\* case-insensitively, bgg_ids differ.
InitStores ==
    { << >> } \cup { << r >> : r \in InitRows }
        \cup { q \in { << r1, r2 >> : r1 \in InitRows, r2 \in InitRows } :
                   /\ Lower(q[1].name) # Lower(q[2].name)
                   /\ q[1].bgg_id = NULL \/ q[1].bgg_id # q[2].bgg_id }

InitThreads ==
    /\ since_last_request = min_request_interval
    /\ last_gap = min_request_interval
    /\ pc = [t \in Threads |-> "idle"]
    /\ attempt = [t \in Threads |-> 0]
    /\ sleep_left = [t \in Threads |-> 0]
    /\ fetched = [t \in Threads |-> None]
    /\ history = [t \in Threads |-> NoHistory]
    /\ result = EmptyResult
    /\ outcomes = << >>
    /\ games_before = << >>
    /\ commit_state = "none"
    /\ last_sync = NoSync
    /\ utc_clock = 0
    /\ edits = 0
    /\ matches = << >>
    /\ last_call = NoCall

Init ==
    /\ games \in InitStores
    /\ autoflush \in BOOLEAN
    /\ InitThreads

\* fetch_user_collection is entered: lines 74-85.
BeginFetch(t) ==
    /\ pc' = [pc EXCEPT ![t] = "rate_limit"]
    /\ attempt' = [attempt EXCEPT ![t] = 0]
    /\ sleep_left' = [sleep_left EXCEPT ![t] = 0]
    /\ fetched' = [fetched EXCEPT ![t] = None]
    /\ history' = [history EXCEPT ![t] = NoHistory]

\* A caller other than sync calls the shared client.
FetchCall(t) ==
    /\ pc[t] = "idle"
    /\ BeginFetch(t)
    /\ UNCHANGED << store_vars, client_vars, sync_vars >>

\* _rate_limit, lines 50-54: how long it sleeps when `elapsed` has passed
\* since the last request.
sleep_time(elapsed) ==
    IF elapsed < min_request_interval THEN min_request_interval - elapsed ELSE 0

\* _rate_limit, lines 50-54: read the elapsed time, sleep for the rest.
RateLimit(t) ==
    /\ pc[t] = "rate_limit"
    /\ sleep_left' = [sleep_left EXCEPT ![t] = sleep_time(since_last_request)]
    /\ pc' = [pc EXCEPT ![t] = "stamp"]
    /\ UNCHANGED << store_vars, client_vars, attempt, fetched, history, sync_vars >>

\* range(max_retries) taken one attempt too far.
AfterContinueInclusive(a) ==
    IF a + 1 <= max_retries THEN "rate_limit" ELSE "returned"

\* Where the loop goes after `continue` in attempt a: the next attempt, or
\* past the loop (lines 134-135).
AfterContinue(a) ==
    IF a + 1 < max_retries THEN "rate_limit" ELSE "returned"

\* Only the unexpected status returns at once; 401 and 404 fall through to
\* the retrying branch.
ReturnsNoneOnlyUnexpected == { "500" }

\* Lines 105-118: the statuses that return None at once.
ReturnsNone == { "401", "404", "500" }

\* Lines 96-132: what the response `resp` (body `items` for a 200) makes of
\* attempt a.
Respond(a, resp, items) ==
    CASE resp = "202" ->
           [pc |-> "retry_sleep", sleep |-> retry_delay, fetched |-> None]
      [] resp = "200" ->
           [pc |-> "returned", sleep |-> 0, fetched |-> Some(parse_collection_xml(items))]
      [] resp = "malformed" ->
           [pc |-> "returned", sleep |-> 0, fetched |-> Some(<< >>)]
      [] resp \in ReturnsNone ->
           [pc |-> "returned", sleep |-> 0, fetched |-> None]
      [] OTHER ->
           IF a < max_retries - 1
           THEN [pc |-> "retry_sleep", sleep |-> retry_delay, fetched |-> None]
           ELSE [pc |-> "returned", sleep |-> 0, fetched |-> None]

\* Line 55 and lines 89-132: the sleep of _rate_limit is over, the time of
\* the request is stamped, the GET is issued and answered.
Request(t, resp, items) ==
    /\ pc[t] = "stamp"
    /\ sleep_left[t] = 0
    /\ last_gap' = since_last_request
    /\ since_last_request' = 0
    /\ LET r == Respond(attempt[t], resp, items)
       IN /\ pc' = [pc EXCEPT ![t] = r.pc]
          /\ sleep_left' = [sleep_left EXCEPT ![t] = r.sleep]
          /\ fetched' = [fetched EXCEPT ![t] = r.fetched]
    /\ history' = [history EXCEPT ![t] =
                      [requests |-> @.requests + 1,
                       all_processing |-> @.all_processing /\ resp = "202",
                       last |-> resp]]
    /\ UNCHANGED << store_vars, attempt, sync_vars >>

\* time.sleep(5) is over: `continue`.
Continue(t) ==
    /\ pc[t] = "retry_sleep"
    /\ sleep_left[t] = 0
    /\ pc' = [pc EXCEPT ![t] = AfterContinue(attempt[t])]
    /\ attempt' = [attempt EXCEPT ![t] = @ + 1]
    /\ UNCHANGED << store_vars, client_vars, sleep_left, fetched, history, sync_vars >>

\* The caller of FetchCall takes the result.
FetchReturn(t) ==
    /\ pc[t] = "returned"
    /\ pc' = [pc EXCEPT ![t] = "idle"]
    /\ attempt' = [attempt EXCEPT ![t] = 0]
    /\ fetched' = [fetched EXCEPT ![t] = None]
    /\ history' = [history EXCEPT ![t] = NoHistory]
    /\ UNCHANGED << store_vars, client_vars, sleep_left, sync_vars >>

\* d units of time pass: while some thread sleeps, or while all are idle.
\* A sleeper may wake late, never early.
Tick(d) ==
    /\ \/ \E t \in Threads : sleep_left[t] > 0
       \/ /\ \A t \in Threads : pc[t] = "idle"
          /\ since_last_request < min_request_interval
          /\ ~last_sync.valid
    /\ sleep_left' = [t \in Threads |-> IF sleep_left[t] > d THEN sleep_left[t] - d ELSE 0]
    /\ since_last_request' =
          IF since_last_request + d < min_request_interval
          THEN since_last_request + d ELSE min_request_interval
    /\ UNCHANGED << store_vars, last_gap, pc, attempt, fetched, history, sync_vars >>

\* ------------------------------------------------------------ crud, games
\* The duplicate check compares the names as they are spelled.
NameExistsExact(tbl, nm, but) == \E i \in DOMAIN tbl \ but : tbl[i].name = nm

\* Lines 80 and 97-100: a row other than those in `but` has the name,
\* compared in lower case.
NameExists(tbl, nm, but) == IdsByLowerName(tbl, nm) \ but # {}

\* create_game, lines 79-88: ValueError when the name exists, else the row
\* is added and committed.
create_game(nm) ==
    /\ pc[Main] = "idle"
    /\ ~last_sync.valid
    /\ edits < MaxEdits
    /\ IF NameExists(games, nm, {})
       THEN /\ last_call' = Call("create_game", nm, 0, "ValueError")
            /\ UNCHANGED << games, edits >>
       ELSE /\ last_call' = Call("create_game", nm, 0, "none")
            /\ games' = [j \in DOMAIN games \cup {NextId(games)} |->
                            IF j \in DOMAIN games THEN games[j] ELSE PlainGame(nm)]
            /\ edits' = edits + 1
    /\ UNCHANGED << autoflush, utc_clock, matches, client_vars, thread_vars, sync_vars >>

\* update_game, lines 90-109, with a name in the update: ValueError when
\* another row has the name.
update_game(game_id, nm) ==
    /\ pc[Main] = "idle"
    /\ ~last_sync.valid
    /\ edits < MaxEdits
    /\ game_id \in DOMAIN games
    /\ IF NameExists(games, nm, {game_id})
       THEN /\ last_call' = Call("update_game", nm, game_id, "ValueError")
            /\ UNCHANGED << games, edits >>
       ELSE /\ last_call' = Call("update_game", nm, game_id, "none")
            /\ games' = [games EXCEPT ![game_id].name = nm]
            /\ edits' = edits + 1
    /\ UNCHANGED << autoflush, utc_clock, matches, client_vars, thread_vars, sync_vars >>

\* ---------------------------------------------------------- crud, matches
\* models.Match.game_id is declared without nullable=False.
game_id_nullable == TRUE

\* create_match, lines 132-137, for a game of the table.
create_match(game_id) ==
    /\ pc[Main] = "idle"
    /\ NextId(matches) <= MaxMatches
    /\ game_id \in DOMAIN games
    /\ matches' = [m \in DOMAIN matches \cup {NextId(matches)} |->
                      IF m \in DOMAIN matches THEN matches[m] ELSE [game_id |-> game_id]]
    /\ last_call' = Call("create_match", << >>, game_id, "none")
    /\ UNCHANGED << games, autoflush, utc_clock, edits, client_vars, thread_vars,
                    sync_vars >>

\* delete_match, lines 152-159
delete_match(match_id) ==
    /\ pc[Main] = "idle"
    /\ match_id \in DOMAIN matches
    /\ matches' = [m \in DOMAIN matches \ {match_id} |-> matches[m]]
    /\ last_call' = Call("delete_match", << >>, match_id, "none")
    /\ UNCHANGED << games, autoflush, utc_clock, edits, client_vars, thread_vars,
                    sync_vars >>

\* db.delete(db_game); db.commit(), lines 116-118.  Game.matches is a
\* relationship without delete cascade (models.py line 40), so the flush
\* first writes NULL into game_id of the game's matches and then deletes the
\* game's row; the UPDATE raises IntegrityError only where NULL is refused.
DeleteFlush(gs, ms, game_id) ==
    LET referencing == { m \in DOMAIN ms : ms[m].game_id = game_id }
    IN IF referencing # {} /\ ~game_id_nullable
       THEN [ok |-> FALSE, games |-> gs, matches |-> ms]
       ELSE [ok |-> TRUE,
             games |-> [i \in DOMAIN gs \ {game_id} |-> gs[i]],
             matches |-> [m \in DOMAIN ms |->
                             IF m \in referencing THEN [ms[m] EXCEPT !.game_id = NULL]
                             ELSE ms[m]]]

\* delete_game, lines 111-123: ValueError after rollback when the commit
\* raised IntegrityError.
delete_game(game_id) ==
    /\ pc[Main] = "idle"
    /\ ~last_sync.valid
    /\ game_id \in DOMAIN games
    /\ LET d == DeleteFlush(games, matches, game_id)
       IN /\ games' = d.games
          /\ matches' = d.matches
          /\ last_call' = Call("delete_game", << >>, game_id,
                               IF d.ok THEN "none" ELSE "ValueError")
    /\ UNCHANGED << autoflush, utc_clock, edits, client_vars, thread_vars, sync_vars >>

\* sync_games_from_bgg is called: lines 245-256.
SyncBegin ==
    /\ pc[Main] = "idle"
    /\ utc_clock < MaxSyncs \/ last_sync.valid
    /\ utc_clock' = utc_clock + 1
    /\ BeginFetch(Main)
    /\ result' = EmptyResult
    /\ outcomes' = << >>
    /\ games_before' = games
    /\ commit_state' = "none"
    /\ last_call' = Call("sync_games_from_bgg", << >>, 0, "none")
    /\ UNCHANGED << games, autoflush, edits, matches, client_vars, last_sync >>

\* Lines 258-260: the fetch returned None.
SyncFetchFailed ==
    /\ pc[Main] = "returned"
    /\ ~fetched[Main].ok
    /\ result' = [result EXCEPT !.errors = Append(@, Err("fetch", << >>))]
    /\ pc' = [pc EXCEPT ![Main] = "done"]
    /\ UNCHANGED << store_vars, client_vars, attempt, sleep_left, fetched, history,
                    outcomes, games_before, commit_state, last_sync >>

\* Lines 262-340: the fetch returned a list.
SyncReconcile(db_ok) ==
    /\ pc[Main] = "returned"
    /\ fetched[Main].ok
    /\ LET r == Reconcile(games, fetched[Main].games, utc_clock, autoflush, db_ok)
       IN /\ games' = r.store
          /\ result' = r.result
          /\ outcomes' = r.outcomes
          /\ commit_state' = IF r.committed THEN "ok"
                             ELSE IF r.flushed THEN "db_failed" ELSE "flush_failed"
    /\ pc' = [pc EXCEPT ![Main] = "done"]
    /\ UNCHANGED << autoflush, utc_clock, edits, matches, last_call, client_vars,
                    attempt, sleep_left, fetched, history, games_before, last_sync >>

\* The caller takes the result dictionary.  repeat: the caller syncs again
\* right away and the upstream collection is the same.
SyncReturn(repeat) ==
    /\ pc[Main] = "done"
    /\ repeat => fetched[Main].ok /\ ~last_sync.valid
    /\ pc' = [pc EXCEPT ![Main] = "idle"]
    /\ last_sync' = IF repeat
                    THEN [valid |-> TRUE, games_data |-> fetched[Main].games,
                          result |-> result]
                    ELSE NoSync
    /\ attempt' = [attempt EXCEPT ![Main] = 0]
    /\ fetched' = [fetched EXCEPT ![Main] = None]
    /\ history' = [history EXCEPT ![Main] = NoHistory]
    /\ result' = EmptyResult
    /\ outcomes' = << >>
    /\ games_before' = << >>
    /\ commit_state' = "none"
    /\ UNCHANGED << store_vars, client_vars, sleep_left >>

\* ---------------------------------------------------------- specifications
\* The answers the upstream can give to the sync call's GET.  While a sync
\* is being repeated the upstream collection is unchanged and ready: a 200
\* with the same records.
SyncRequest ==
    IF last_sync.valid
    THEN \E items \in { last_sync.games_data } : Request(Main, "200", items)
    ELSE \/ \E resp \in Failures : Request(Main, resp, << >>)
         \/ \E items \in Bodies : Request(Main, "200", items)

\* One caller at a time: game creation, game update and sync in any order.
Next ==
    \/ \E nm \in Names : create_game(nm)
    \/ \E game_id \in DOMAIN games, nm \in Names : update_game(game_id, nm)
    \/ SyncBegin
    \/ RateLimit(Main)
    \/ SyncRequest
    \/ Continue(Main)
    \/ SyncFetchFailed
    \/ \E db_ok \in BOOLEAN : SyncReconcile(db_ok)
    \/ \E repeat \in BOOLEAN : SyncReturn(repeat)
    \/ Tick(min_request_interval)

Spec == Init /\ [][Next]_vars

\* Several threads call the shared client at once; the store is not touched.
InitClient ==
    /\ games = << >>
    /\ autoflush = FALSE
    /\ InitThreads

\* The bodies of at most one item are enough for what the callers see.
ClientBodies == { b \in Bodies : Len(b) <= 1 }

NextClient ==
    \/ \E t \in Threads : FetchCall(t)
    \/ \E t \in Threads : RateLimit(t)
    \/ \E t \in Threads, resp \in Failures : Request(t, resp, << >>)
    \/ \E t \in Threads, items \in ClientBodies : Request(t, "200", items)
    \/ \E t \in Threads : Continue(t)
    \/ \E t \in Threads : FetchReturn(t)
    \/ Tick(1)

SpecClient == InitClient /\ [][NextClient]_vars

\* The stores in which a game made by create_game stands next to a game
\* that a sync has renamed by its bgg_id (lines 276-278): the two names are
\* different strings, and may be equal case-insensitively.
RenamedStores ==
    { q \in { << NewGame(GameData(1, nm1, 1), 0), PlainGame(nm2) >> :
                  nm1 \in Names, nm2 \in Names } : q[1].name # q[2].name }

InitRepeat ==
    /\ games \in RenamedStores
    /\ autoflush \in BOOLEAN
    /\ InitThreads

\* Sync calls on such a store, the last of them repeated.
NextRepeat ==
    \/ SyncBegin
    \/ RateLimit(Main)
    \/ SyncRequest
    \/ Continue(Main)
    \/ SyncFetchFailed
    \/ \E db_ok \in BOOLEAN : SyncReconcile(db_ok)
    \/ \E repeat \in BOOLEAN : SyncReturn(repeat)
    \/ Tick(min_request_interval)

SpecRepeat == InitRepeat /\ [][NextRepeat]_vars

\* The plain crud calls on games and matches, without sync.
NextStore ==
    \/ \E nm \in Names : create_game(nm)
    \/ \E game_id \in DOMAIN games, nm \in Names : update_game(game_id, nm)
    \/ \E game_id \in DOMAIN games : delete_game(game_id)
    \/ \E game_id \in DOMAIN games : create_match(game_id)
    \/ \E match_id \in DOMAIN matches : delete_match(match_id)

SpecStore == Init /\ [][NextStore]_vars

\* ----------------------------------------------------------------- claims
AtDone == pc[Main] = "done"

\* C1: no two committed Game rows share a non-null bgg_id, and no two have
\* names that are equal case-insensitively, whatever create_game,
\* update_game and sync did.
C1_UniqueGames ==
    \A i, j \in DOMAIN games :
        i # j =>
            /\ games[i].bgg_id = NULL \/ games[i].bgg_id # games[j].bgg_id
            /\ Lower(games[i].name) # Lower(games[j].name)

\* C2: when the commit at the end of a sync fails, the committed store is
\* what it was before the call and the result says success = false.
CommitFailed == AtDone /\ commit_state \in { "flush_failed", "db_failed" }

C2_CommitFailureRollsBack ==
    CommitFailed => games = games_before /\ result.success = FALSE

\* C2's case: the database refused a commit that had rows to add.
C2_Witness == AtDone /\ commit_state = "db_failed" /\ result.games_added > 0

\* The repeated call is done: last_sync holds the call before it, made with
\* the same collection.
SecondDone == AtDone /\ last_sync.valid /\ fetched[Main].ok

RepeatedAllUpdated ==
    result.games_added = 0 /\ result.games_updated = Len(fetched[Main].games)

\* The records have bgg_ids that are truthy and pairwise different, and
\* names that are pairwise different case-insensitively.
DistinctRecords(gd) ==
    \A k \in DOMAIN gd :
        /\ gd[k].bgg_id # 0
        /\ \A j \in DOMAIN gd \ {k} :
              /\ gd[j].bgg_id # gd[k].bgg_id
              /\ Lower(gd[j].name) # Lower(gd[k].name)

\* C3: the second of two sync calls with the same collection returns
\* games_added = 0 and games_updated = the number of records; stated for
\* the calls that are not set apart by the collection itself: the first
\* call returned success = true and the records are DistinctRecords.
C3_RepeatedSync ==
    SecondDone /\ last_sync.result.success /\ DistinctRecords(fetched[Main].games)
        => RepeatedAllUpdated

\* C4: against an upstream that always answers 202, a fetch issues exactly
\* max_retries requests, never more, and returns failure.
C4_RetryBound ==
    \A t \in Threads :
        /\ history[t].requests <= max_retries
        /\ pc[t] = "returned" /\ history[t].all_processing =>
              history[t].requests = max_retries /\ ~fetched[t].ok

\* C4's case: a fetch that saw nothing but 202 has returned.
C4_Witness ==
    \E t \in Threads :
        pc[t] = "returned" /\ history[t].all_processing
            /\ history[t].requests = max_retries

\* C5: two consecutive requests through the shared client are at least
\* min_request_interval apart, also with concurrent callers.
C5_MinGap == last_gap >= min_request_interval

\* C6: a timeout, a malformed body or an unexpected status is retried up to
\* max_retries attempts and then surfaces as failure, never as a list.
Transient == { "timeout", "malformed", "500" }

C6_TransientRetried ==
    \A t \in Threads :
        pc[t] = "returned" /\ history[t].last \in Transient =>
            ~fetched[t].ok /\ history[t].requests = max_retries

\* C7: after a 404 or a 401 the fetch returns failure without another
\* request, and the sync returns success = false, one error, zero counts,
\* and leaves the store as it was.
Refused(t) == history[t].last \in { "401", "404" }

C7_DefinitiveFailure ==
    /\ \A t \in Threads :
          Refused(t) => pc[t] \in { "returned", "done" } /\ ~fetched[t].ok
    /\ AtDone /\ Refused(Main) =>
          /\ result = [EmptyResult EXCEPT !.errors = << Err("fetch", << >>) >>]
          /\ games = games_before

\* C7's case: a sync whose fetch was refused after earlier retries.
C7_Witness == AtDone /\ Refused(Main) /\ history[Main].requests > 1

\* Record k of the batch has a bgg_id that no Game of the store holds and a
\* name that a Game of the store has, case-insensitively; the store is what
\* the sync had made of it when the record was taken up.
NameOnlyMatch(k) ==
    /\ fetched[Main].games[k].bgg_id # 0
    /\ ~outcomes[k].seen_id
    /\ outcomes[k].seen_name

\* C8: a record whose bgg_id matches no Game and whose name matches a Game
\* case-insensitively creates no row: it is merged into that Game (bgg_id
\* and provenance flag set) and counted under games_updated.
C8_NameMerge ==
    AtDone => \A k \in DOMAIN outcomes : NameOnlyMatch(k) => outcomes[k].how = "by_name"

Matched(k) == outcomes[k].how \in { "by_id", "by_name" }

\* No later record of the batch was matched to the row record k was.
LastOnRow(k) ==
    \A j \in DOMAIN outcomes : j > k => ~(Matched(j) /\ outcomes[j].id = outcomes[k].id)

\* C9: after a successful sync the row a record was matched to, by bgg_id or
\* by name, has the record's name, year, urls, player counts, playing time
\* and rating, the provenance flag set and last_synced at the sync's time.
C9_MatchedRowTakesRecord ==
    AtDone /\ result.success =>
        \A k \in DOMAIN outcomes :
            Matched(k) /\ LastOnRow(k) =>
                LET row == games[outcomes[k].id]
                IN row = [NewGame(fetched[Main].games[k], utc_clock)
                             EXCEPT !.bgg_id = row.bgg_id]

\* C10: when the processing of a record raised, the sync still succeeds
\* (unless the database refuses the COMMIT itself) and every later record
\* that was added or matched is in the committed store.
C10_BadRecordIsolated ==
    AtDone /\ commit_state # "db_failed" =>
        \A k \in DOMAIN outcomes :
            outcomes[k].how = "error" =>
                /\ result.success
                /\ \A j \in DOMAIN outcomes :
                      j > k /\ outcomes[j].how \in { "by_id", "by_name", "added" } =>
                          \E i \in DOMAIN games :
                              games[i].bgg_id = fetched[Main].games[j].bgg_id

\* C11: the result has success = true exactly when db.commit() was reached
\* and returned; errors recorded for single records do not decide it.
C11_SuccessIffCommit ==
    AtDone => (result.success <=> commit_state = "ok")

\* C11's case: a committed sync whose errors list is not empty.
C11_Witness ==
    AtDone /\ commit_state = "ok" /\ result.success /\ result.errors # << >>

\* A create_game call has just returned or raised.
CreateGameStep ==
    last_call'.op = "create_game" /\ (last_call' # last_call \/ games' # games)

\* create_game with a name that a Game has, case-insensitively, raises
\* ValueError and leaves the table as it is.
CreateConflictRefused ==
    CreateGameStep /\ IdsByLowerName(games, last_call'.name) # {} =>
        last_call'.exc = "ValueError" /\ games' = games

\* C12 as stated: such a name is refused with a name-conflict error and no
\* row is created, by create_game and by sync alike: a record that matches
\* a Game by name only is recorded as an error.
C12_NameConflictRefused ==
    /\ [][CreateConflictRefused]_vars
    /\ [](AtDone => \A k \in DOMAIN outcomes :
              NameOnlyMatch(k) => outcomes[k].how = "error")

\* C12 amended: create_game refuses such a name with ValueError and creates
\* no row; sync does not refuse it: the first record of a batch that matches
\* a Game by name only raises nothing and is merged into that Game.
C12_NameConflict ==
    /\ [][CreateConflictRefused]_vars
    /\ [](AtDone /\ outcomes # << >> /\ NameOnlyMatch(1) =>
              /\ outcomes[1].how = "by_name"
              /\ outcomes[1].id \in IdsByLowerName(games_before, fetched[Main].games[1].name))

\* C12's case: create_game has raised for a name spelled unlike the Game's.
C12_Witness ==
    /\ last_call.op = "create_game" /\ last_call.exc = "ValueError"
    /\ \E i \in DOMAIN games :
          games[i].name # last_call.name /\ Lower(games[i].name) = Lower(last_call.name)

\* The record carries an external id.
WithExternalId(rec) == rec.bgg_id # 0 /\ rec.bgg_id # NULL

IsMissingIdError(e) == e.kind = "missing_id"
IsOtherError(e) == e.kind # "missing_id"

\* C13: a record without an external id is dropped by the parser or, in the
\* reconciler, gets one per-item error and nothing else: store, counts and
\* the other errors are those of the batch without such records.
C13_NoIdNoEffect ==
    /\ \A t \in Threads : \A k \in DOMAIN fetched[t].games :
          fetched[t].games[k].bgg_id # NULL
    /\ AtDone /\ fetched[Main].ok =>
          LET gd == fetched[Main].games
              without == Reconcile(games_before, SelectSeq(gd, WithExternalId),
                                   utc_clock, autoflush, commit_state # "db_failed")
          IN /\ games = without.store
             /\ result.games_added = without.result.games_added
             /\ result.games_updated = without.result.games_updated
             /\ SelectSeq(result.errors, IsOtherError) = without.result.errors
             /\ Len(SelectSeq(result.errors, IsMissingIdError))
                   = Len(gd) - Len(SelectSeq(gd, WithExternalId))

\* C13's case: a committed sync that added a row and had a record without
\* an external id in its batch.
C13_Witness ==
    /\ AtDone /\ commit_state = "ok" /\ result.games_added > 0
    /\ \E k \in DOMAIN outcomes : outcomes[k].how = "missing"

\* C14: whatever failed (the fetch, a record, the commit), the sync call
\* raises nothing and returns a dictionary with success, games_added,
\* games_updated, errors and total_games that reports the failure.
C14_AlwaysResult ==
    AtDone =>
        /\ last_call = Call("sync_games_from_bgg", << >>, 0, "none")
        /\ DOMAIN result =
              { "success", "games_added", "games_updated", "errors", "total_games" }
        /\ result.success \in BOOLEAN
        /\ result.games_added \in Nat /\ result.games_updated \in Nat
        /\ result.total_games \in Nat
        /\ \A i \in DOMAIN result.errors :
              result.errors[i].kind \in { "fetch", "missing_id", "record", "sync" }
        /\ ~fetched[Main].ok =>
              result = [EmptyResult EXCEPT !.errors = << Err("fetch", << >>) >>]
        /\ \A k \in DOMAIN outcomes :
              outcomes[k].how = "error" =>
                  \E i \in DOMAIN result.errors :
                      result.errors[i] = Err("record", fetched[Main].games[k].name)
        /\ commit_state \in { "flush_failed", "db_failed" } =>
              /\ result.success = FALSE
              /\ result.errors # << >>
              /\ result.errors[Len(result.errors)] = Err("sync", << >>)

\* C14's case: a record raised and the commit raised after it.
C14_Witness ==
    /\ AtDone /\ commit_state = "flush_failed"
    /\ \E k \in DOMAIN outcomes : outcomes[k].how = "error"

\* A delete_game call has just returned or raised.
DeleteGameStep ==
    last_call'.op = "delete_game" /\ (last_call' # last_call \/ games' # games)

\* delete_game on a Game that a Match references raises and changes nothing.
DeleteReferencedRefused ==
    DeleteGameStep /\ (\E m \in DOMAIN matches : matches[m].game_id = last_call'.id) =>
        last_call'.exc = "ValueError" /\ games' = games /\ matches' = matches

\* Every Match names a Game of the table.
NoOrphanMatch == \A m \in DOMAIN matches : matches[m].game_id \in DOMAIN games

\* C15: delete_game on a Game referenced by a Match fails with an error and
\* leaves the Game and its Matches unchanged, so no Match ever names a Game
\* that does not exist.
C15_DeleteRefused ==
    /\ [][DeleteReferencedRefused]_vars
    /\ []NoOrphanMatch

\* C16: a sync that returns success = true has accounted for every fetched
\* record once: games_added + games_updated + the number of errors is
\* total_games, the number of records fetched.
C16_CountsAddUp ==
    AtDone /\ result.success =>
        /\ result.total_games = Len(fetched[Main].games)
        /\ result.games_added + result.games_updated + Len(result.errors)
              = result.total_games

\* C16's case: a successful sync of two records, one added and one updated.
C16_Witness ==
    AtDone /\ result.success /\ result.games_added = 1 /\ result.games_updated = 1

\* No record of the batch has the row's bgg_id or, case-insensitively, its
\* name.
Unmatched(row, gd) ==
    \A k \in DOMAIN gd :
        gd[k].bgg_id # row.bgg_id /\ Lower(gd[k].name) # Lower(row.name)

\* C17: a sync deletes no Game row, and a row that no record of the batch
\* matches, by bgg_id or by name, has all its fields as before the call.
C17_UnmatchedUntouched ==
    AtDone =>
        /\ DOMAIN games_before \subseteq DOMAIN games
        /\ \A i \in DOMAIN games_before :
              Unmatched(games_before[i], fetched[Main].games) =>
                  games[i] = games_before[i]

\* C17's case: a committed sync that changed one row and had another row
\* that no record matched.
C17_Witness ==
    /\ AtDone /\ commit_state = "ok"
    /\ \E i, j \in DOMAIN games_before :
          /\ Unmatched(games_before[i], fetched[Main].games)
          /\ games[j] # games_before[j]

====
